---- MODULE Spec2Model ----
(***************************************************************************)
(* Model of src/c/getauxval-wrapper.c: getauxval_wrapper(key, result), a   *)
(* probe of the weakly linked libc facility getauxval().                   *)
(*                                                                         *)
(* The wrapper is modelled statement by statement; pc names the source     *)
(* line the caller's thread is about to execute.  The facility itself is   *)
(* not part of the repository: it is modelled as a table auxv, fixed for a *)
(* run, that says for every key whether the key is found (and its value),  *)
(* is not found (errno := ENOENT, as of glibc 2.19) or fails with another  *)
(* error (errno := some other nonzero value, which the source anticipates).*)
(* A successful getauxval() does not touch errno (no libc function sets    *)
(* errno to zero).                                                         *)
(***************************************************************************)
EXTENDS Integers, FiniteSets, Sequences, TLC

\* ---------------------------------------------------------------- bounds
MaxKey == 1
MaxVal == 1
MaxCalls == 2

\* ------------------------------------------------------------- constants
\* errno.h: ENOENT is the failure the source names; EINVAL stands for the
\* "more errors" of lines 36-37, any nonzero value other than ENOENT.
ENOENT == 2
EINVAL == 22

NULL == "NULL"
Resolved == "resolved"

Keys == 0..MaxKey
Values == 0..MaxVal
ErrnoVals == {0, ENOENT, EINVAL}

\* What the facility does for one key.
Found(v) == [kind |-> "ok", val |-> v, err |-> 0]
NotFoundOutcome == [kind |-> "enoent", val |-> 0, err |-> ENOENT]
OtherErrorOutcome == [kind |-> "err", val |-> 0, err |-> EINVAL]
Outcomes == {Found(v) : v \in Values} \cup {NotFoundOutcome, OtherErrorOutcome}

VARIABLES
    getauxval,   \* the weak symbol: NULL or Resolved
    auxv,        \* the facility's behaviour, key -> outcome
    errno,       \* the error indicator
    pc,          \* "idle", "L26", "L30", "L31", "L35", "L33", "L38", "L42", "ret", "crash"
    key,         \* parameter key of the call in progress
    result,      \* the caller's output location, *result
    auxval,      \* local auxval
    ret,         \* the value returned by the call
    entryErrno,  \* errno when the call started
    entryResult, \* *result when the call started
    postErrno,   \* errno immediately after the facility returned
    nInvoked,    \* invocations of the facility in this call
    invokedKey,  \* argument of the last invocation
    nWritten,    \* writes to *result in this call
    raced,       \* another thread wrote errno between the facility's return and the last read
    calls,       \* completed calls
    prev,        \* <<key, ret, *result>> of the previous completed call
    successive   \* nothing ran between the previous return and this call

vars == <<getauxval, auxv, errno, pc, key, result, auxval, ret, entryErrno,
          entryResult, postErrno, nInvoked, invokedKey, nWritten, raced,
          calls, prev, successive>>

envVars == <<getauxval, auxv>>
histVars == <<calls, prev, successive>>

TypeOK ==
    /\ getauxval \in {NULL, Resolved}
    /\ auxv \in [Keys -> Outcomes]
    /\ errno \in ErrnoVals
    /\ pc \in {"idle", "L26", "L30", "L31", "L33", "L35", "L38", "L42", "ret", "crash"}
    /\ key \in Keys
    /\ result \in Values
    /\ auxval \in Values
    /\ ret \in {1, 0, -1, -2}
    /\ nInvoked \in 0..2
    /\ nWritten \in 0..1
    /\ calls \in 0..MaxCalls

Init ==
    /\ getauxval \in {NULL, Resolved}
    /\ auxv \in [Keys -> Outcomes]
    /\ getauxval = NULL => auxv = [k \in Keys |-> NotFoundOutcome]
    /\ errno \in ErrnoVals
    /\ result \in Values
    /\ pc = "idle"
    /\ key = 0
    /\ auxval = 0
    /\ ret = 0
    /\ entryErrno = errno
    /\ entryResult = result
    /\ postErrno = 0
    /\ nInvoked = 0
    /\ invokedKey = 0
    /\ nWritten = 0
    /\ raced = FALSE
    /\ calls = 0
    /\ prev = <<0, 0, 0>>
    /\ successive = FALSE

\* ------------------------------------------------------------ the caller

\* The caller enters getauxval_wrapper(k, &result).
Call(k) ==
    /\ pc = "idle"
    /\ calls < MaxCalls
    /\ key' = k
    /\ pc' = "L26"
    /\ entryErrno' = errno
    /\ entryResult' = result
    /\ postErrno' = 0
    /\ nInvoked' = 0
    /\ nWritten' = 0
    /\ raced' = FALSE
    /\ auxval' = 0
    /\ UNCHANGED <<errno, result, ret, invokedKey>>
    /\ UNCHANGED envVars
    /\ UNCHANGED histVars

\* Other code of the caller runs between two calls and leaves errno at e.
CallerOther(e) ==
    /\ pc = "idle"
    /\ e # errno
    /\ errno' = e
    /\ successive' = FALSE
    /\ UNCHANGED <<pc, key, result, auxval, ret, entryErrno, entryResult,
                   postErrno, nInvoked, invokedKey, nWritten, raced, calls, prev>>
    /\ UNCHANGED envVars

\* The call returns to the caller.
Return ==
    /\ pc = "ret"
    /\ pc' = "idle"
    /\ calls' = calls + 1
    /\ prev' = <<key, ret, result>>
    /\ successive' = TRUE
    /\ UNCHANGED <<errno, key, result, auxval, ret, entryErrno, entryResult,
                   postErrno, nInvoked, invokedKey, nWritten, raced>>
    /\ UNCHANGED envVars

\* ----------------------------------------------------------- the wrapper

frame == <<key, entryErrno, entryResult, raced>>

\* Line 26 with the symbols taken for one another: -1 reported as 0.
CheckSymbolWrongCode ==
    /\ pc = "L26"
    /\ IF getauxval = NULL
          THEN /\ ret' = 0
               /\ pc' = "ret"
          ELSE /\ pc' = "L30"
               /\ UNCHANGED ret
    /\ UNCHANGED <<errno, result, auxval, postErrno, nInvoked, invokedKey, nWritten>>
    /\ UNCHANGED frame
    /\ UNCHANGED envVars
    /\ UNCHANGED histVars

\* Lines 26-28 left out: the facility is invoked whether or not it resolved.
CheckSymbolNoGuard ==
    /\ pc = "L26"
    /\ pc' = "L30"
    /\ UNCHANGED <<errno, result, auxval, ret, postErrno, nInvoked, invokedKey, nWritten>>
    /\ UNCHANGED frame
    /\ UNCHANGED envVars
    /\ UNCHANGED histVars

\* Lines 26-28: if (getauxval == NULL) return -1;
CheckSymbol ==
    /\ pc = "L26"
    /\ IF getauxval = NULL
          THEN /\ ret' = -1
               /\ pc' = "ret"
          ELSE /\ pc' = "L30"
               /\ UNCHANGED ret
    /\ UNCHANGED <<errno, result, auxval, postErrno, nInvoked, invokedKey, nWritten>>
    /\ UNCHANGED frame
    /\ UNCHANGED envVars
    /\ UNCHANGED histVars

\* The facility's effect on errno: set on failure, left alone on success.
FacilityErrno(o, e) == IF o.kind = "ok" THEN e ELSE o.err

\* Line 30 preceded by errno = 0.
InvokeClearsFirst ==
    /\ pc = "L30"
    /\ nInvoked' = nInvoked + 1
    /\ invokedKey' = key
    /\ IF getauxval = NULL
          THEN /\ pc' = "crash"
               /\ errno' = 0
               /\ UNCHANGED <<auxval, postErrno>>
          ELSE /\ auxval' = auxv[key].val
               /\ errno' = FacilityErrno(auxv[key], 0)
               /\ postErrno' = errno'
               /\ pc' = "L31"
    /\ UNCHANGED <<result, ret, nWritten>>
    /\ UNCHANGED frame
    /\ UNCHANGED envVars
    /\ UNCHANGED histVars

\* Line 30: unsigned long auxval = getauxval(key);
\* A call through the unresolved symbol is a jump to address 0.
Invoke ==
    /\ pc = "L30"
    /\ nInvoked' = nInvoked + 1
    /\ invokedKey' = key
    /\ IF getauxval = NULL
          THEN /\ pc' = "crash"
               /\ UNCHANGED <<auxval, errno, postErrno>>
          ELSE /\ auxval' = auxv[key].val
               /\ errno' = FacilityErrno(auxv[key], errno)
               /\ postErrno' = errno'
               /\ pc' = "L31"
    /\ UNCHANGED <<result, ret, nWritten>>
    /\ UNCHANGED frame
    /\ UNCHANGED envVars
    /\ UNCHANGED histVars

\* Line 31: if (errno == ENOENT)
TestNotFound ==
    /\ pc = "L31"
    /\ pc' = IF errno = ENOENT THEN "L33" ELSE "L35"
    /\ UNCHANGED <<errno, result, auxval, ret, postErrno, nInvoked, invokedKey, nWritten>>
    /\ UNCHANGED frame
    /\ UNCHANGED envVars
    /\ UNCHANGED histVars

\* Lines 33-34 with the value stored before the return.
NotFoundWritesResult ==
    /\ pc = "L33"
    /\ errno' = 0
    /\ result' = auxval
    /\ nWritten' = nWritten + 1
    /\ ret' = 0
    /\ pc' = "ret"
    /\ UNCHANGED <<auxval, postErrno, nInvoked, invokedKey>>
    /\ UNCHANGED frame
    /\ UNCHANGED envVars
    /\ UNCHANGED histVars

\* Lines 33-34 answering -2 for a key that is not found.
NotFoundWrongCode ==
    /\ pc = "L33"
    /\ errno' = 0
    /\ ret' = -2
    /\ pc' = "ret"
    /\ UNCHANGED <<result, auxval, postErrno, nInvoked, invokedKey, nWritten>>
    /\ UNCHANGED frame
    /\ UNCHANGED envVars
    /\ UNCHANGED histVars

\* Lines 33-34: errno = 0; return 0;
NotFound ==
    /\ pc = "L33"
    /\ errno' = 0
    /\ ret' = 0
    /\ pc' = "ret"
    /\ UNCHANGED <<result, auxval, postErrno, nInvoked, invokedKey, nWritten>>
    /\ UNCHANGED frame
    /\ UNCHANGED envVars
    /\ UNCHANGED histVars

\* Line 35: else if (errno != 0)
TestOther ==
    /\ pc = "L35"
    /\ pc' = IF errno # 0 THEN "L38" ELSE "L42"
    /\ UNCHANGED <<errno, result, auxval, ret, postErrno, nInvoked, invokedKey, nWritten>>
    /\ UNCHANGED frame
    /\ UNCHANGED envVars
    /\ UNCHANGED histVars

\* Lines 38-39 without line 38: errno is left set.
UnexpectedErrorNoClear ==
    /\ pc = "L38"
    /\ ret' = -2
    /\ pc' = "ret"
    /\ UNCHANGED <<errno, result, auxval, postErrno, nInvoked, invokedKey, nWritten>>
    /\ UNCHANGED frame
    /\ UNCHANGED envVars
    /\ UNCHANGED histVars

\* Lines 38-39 as the header comment's second bullet has it: 0 for another error.
UnexpectedErrorAsNotFound ==
    /\ pc = "L38"
    /\ errno' = 0
    /\ ret' = 0
    /\ pc' = "ret"
    /\ UNCHANGED <<result, auxval, postErrno, nInvoked, invokedKey, nWritten>>
    /\ UNCHANGED frame
    /\ UNCHANGED envVars
    /\ UNCHANGED histVars

\* Lines 38-39: errno = 0; return -2;
UnexpectedError ==
    /\ pc = "L38"
    /\ errno' = 0
    /\ ret' = -2
    /\ pc' = "ret"
    /\ UNCHANGED <<result, auxval, postErrno, nInvoked, invokedKey, nWritten>>
    /\ UNCHANGED frame
    /\ UNCHANGED envVars
    /\ UNCHANGED histVars

\* Lines 42-43: *result = auxval; return 1;
Success ==
    /\ pc = "L42"
    /\ result' = auxval
    /\ nWritten' = nWritten + 1
    /\ ret' = 1
    /\ pc' = "ret"
    /\ UNCHANGED <<errno, auxval, postErrno, nInvoked, invokedKey>>
    /\ UNCHANGED frame
    /\ UNCHANGED envVars
    /\ UNCHANGED histVars

\* ------------------------------------------------------ a second thread

\* Another thread stores e into the error indicator.  The wrapper takes no
\* lock, so the store can fall between any two of its statements.
OtherThreadWrite(e) ==
    /\ pc \in {"L26", "L30", "L31", "L33", "L35", "L38", "L42", "ret"}
    /\ e # errno
    /\ errno' = e
    /\ raced' = (raced \/ pc \in {"L31", "L35"})
    /\ UNCHANGED <<pc, key, result, auxval, ret, entryErrno, entryResult,
                   postErrno, nInvoked, invokedKey, nWritten>>
    /\ UNCHANGED envVars
    /\ UNCHANGED histVars

\* --------------------------------------------------------- specifications

Wrapper ==
    \/ CheckSymbol
    \/ Invoke
    \/ TestNotFound
    \/ NotFound
    \/ TestOther
    \/ UnexpectedError
    \/ Success

Next ==
    \/ \E k \in Keys : Call(k)
    \/ \E e \in ErrnoVals : CallerOther(e)
    \/ Wrapper
    \/ Return

Spec == Init /\ [][Next]_vars

NextMT ==
    \/ Next
    \/ \E e \in ErrnoVals : OtherThreadWrite(e)

SpecMT == Init /\ [][NextMT]_vars

\* ----------------------------------------------------------------- claims

Returned == pc = "ret"
InProgress == pc \in {"L26", "L30", "L31", "L33", "L35", "L38", "L42"}
OutputUntouched == nWritten = 0 /\ result = entryResult

\* The return code the contract attaches to a value of the error indicator.
ExpectedCode(e) == IF e = ENOENT THEN 0 ELSE IF e # 0 THEN -2 ELSE 1

\* The return code the contract attaches to what the facility did.
SignalCode(o) == IF o.kind = "ok" THEN 1 ELSE IF o.kind = "enoent" THEN 0 ELSE -2

\* C1 (as stated): after any call, whichever outcome it returns and whatever
\* errno held at entry, errno is 0 when the call returns.
C1_ErrnoZeroOnReturn == Returned => errno = 0

\* C1 (amended): a call that returns 1, 0 or -2 returns with errno = 0; a call
\* that returns -1 returns with errno at the value it held at entry.
C1_ErrnoZeroUnlessUnavailable ==
    Returned => IF ret = -1 THEN errno = entryErrno ELSE errno = 0

C1_Witness == Returned /\ ret = -2 /\ entryErrno # 0 /\ errno = 0

\* C2: if the facility is present and succeeds for the key with value v, then
\* from any state the call starts in the wrapper returns 1 and *result = v.
C2_SuccessReturnsOne ==
    (Returned /\ getauxval = Resolved /\ auxv[key].kind = "ok")
        => (ret = 1 /\ result = auxv[key].val)

\* C3: the output location is written if and only if the call returns 1: on
\* 0, -1 and -2 it holds the value it held before the call, on 1 it has been
\* assigned the value the facility returned; nothing is written before the
\* return code is decided.
C3_WrittenIffSuccess ==
    /\ InProgress => OutputUntouched
    /\ Returned => (nWritten = 1 <=> ret = 1)
    /\ (Returned /\ ret # 1) => OutputUntouched
    /\ (Returned /\ ret = 1) => (result = auxval /\ auxval = auxv[key].val)

C3_Witness == Returned /\ ret = 1 /\ nWritten = 1 /\ result # entryResult

\* C4: if the symbol is unresolved the wrapper returns -1 for every key and
\* leaves the output location unmodified.
C4_UnavailableReturnsMinusOne ==
    (Returned /\ getauxval = NULL) => (ret = -1 /\ OutputUntouched)

C4_Witness == Returned /\ getauxval = NULL /\ key = MaxKey /\ ret = -1

\* C5: if the facility is present and errno reads ENOENT right after the
\* facility call, the wrapper returns 0, leaves the output location unmodified
\* and returns with errno = 0.
C5_NotFoundReturnsZero ==
    (Returned /\ getauxval = Resolved /\ postErrno = ENOENT)
        => (ret = 0 /\ OutputUntouched /\ errno = 0)

C5_Witness ==
    Returned /\ getauxval = Resolved /\ auxv[key].kind = "enoent" /\ postErrno = ENOENT /\ ret = 0

C7_InvokedOnceIfResolved ==
    /\ getauxval = NULL => (nInvoked = 0 /\ pc # "crash")
    /\ nInvoked <= 1
    /\ (getauxval = Resolved /\ pc \in {"L26", "L30"}) => nInvoked = 0
    /\ (getauxval = Resolved /\ pc \in {"L31", "L33", "L35", "L38", "L42", "ret"})
          => (nInvoked = 1 /\ invokedKey = key)

C7_Witness ==
    Returned /\ getauxval = Resolved /\ nInvoked = 1 /\ invokedKey = MaxKey /\ calls = 1

\* C8: two calls in succession with the same key, against a facility that
\* succeeds for that key, yield the same return code and the same output value.
C8_Idempotent ==
    (Returned /\ calls >= 1 /\ successive /\ prev[1] = key
        /\ getauxval = Resolved /\ auxv[key].kind = "ok")
        => (ret = prev[2] /\ result = prev[3])

C10_SerializedMatchesSignal ==
    (Returned /\ getauxval = Resolved /\ ~raced) => ret = SignalCode(auxv[key])

\* Under the same serialization the return code does match the errno value
\* present when the facility returned, stale or not.
SerializedReadDecides ==
    (Returned /\ getauxval = Resolved /\ ~raced) => ret = ExpectedCode(postErrno)

====
